---------------------------- MODULE Spec2Model ----------------------------
(***************************************************************************)
(* A model of src/src/main.rs, the generator of the profile README:        *)
(*   get_all_languages   the per-language byte totals, their percentages,  *)
(*                       the sort and the truncation to ten                *)
(*   create_ascii_bar    the bar of filled / transition / empty cells      *)
(*   create_ascii_badge  the three-line box around a label and a value     *)
(*   format_activity     one row of the activity log                       *)
(*   format_github_stats the table of the six counters                     *)
(*   main                the two interleaving loops and the document       *)
(*                                                                         *)
(* A string is a sequence of characters, a character a TLA+ string; the    *)
(* characters outside ASCII stand under an ASCII name (FILLED, HLINE ...)  *)
(* and keep their UTF-8 length in CharBytes, because str::len counts       *)
(* bytes while the padding of format! counts characters.  An f64 is an     *)
(* exact fraction or NaN.  usize keeps a width (UsizeModulus).             *)
(***************************************************************************)
EXTENDS Integers, Sequences, FiniteSets, TLC

VARIABLES
    pc,                   \* the position in the program
    overflow_checks,      \* the build: TRUE panics on integer overflow, FALSE wraps
    input,                \* what the fetches returned (never written after Init)
    clock,                \* the last instant the system clock returned
    args,                 \* the arguments of the pure function under call
    ret,                  \* its result
    repo_idx,             \* get_all_languages: the repositories consumed so far
    languages,            \* get_all_languages: the HashMap language -> bytes
    language_percentages, \* get_all_languages: the Vec that is sorted and cut
    top_languages,        \* main: the aggregation's result
    header_lines,         \* main: the lines of the large figure
    badge_lines,          \* main: the lines of the two badges
    i,                    \* main: the index of the running loop
    output,               \* main: the document, a sequence of lines
    documents             \* the documents of the runs completed so far

vars == <<pc, overflow_checks, input, clock, args, ret, repo_idx, languages,
          language_percentages, top_languages, header_lines, badge_lines, i,
          output, documents>>

-----------------------------------------------------------------------------
(* Bounds of the model.                                                    *)

MaxBarWidth == 6        \* the bar widths tried are 1..MaxBarWidth and BAR_WIDTH
PercentDen == 2         \* the percentages tried are the multiples of 1/PercentDen
PercentBeyond == 3      \* ... from -PercentBeyond to 100 + PercentBeyond
MaxTextLen == 3         \* the labels and values tried have up to MaxTextLen characters
MaxBadgeWidth == 9      \* the badge widths tried are 0..MaxBadgeWidth and BADGE_WIDTH
MaxClock == 2           \* the system clock returns the instants 0..MaxClock
MaxSmallLangs == 2      \* the small repositories hold any of the first MaxSmallLangs languages
MaxBytes == 1           \* ... each with 0..MaxBytes bytes
MaxLangs == 11          \* the wide repositories hold the first 3..MaxLangs languages
MaxRuns == 2            \* the program is run up to MaxRuns times on one input
MaxPermKeys == 2        \* a HashMap of up to MaxPermKeys keys is iterated in every order

-----------------------------------------------------------------------------
(* Integers and text.                                                      *)

Max(a, b) == IF a >= b THEN a ELSE b

Min(a, b) == IF a <= b THEN a ELSE b

\* usize: the model keeps 30 bits of it (TLC's integers have 32); every length
\* of the model is far below, so a wrapped difference is, as with 64 bits, a
\* number above every length.
UsizeModulus == 2^30

\* a - b on usize with the overflow checks off
WrappingSub(a, b) == (a - b + UsizeModulus) % UsizeModulus

\* whether a - b on usize overflows
SubOverflows(a, b) == a < b

\* the Braille patterns of the two figures, bXX for U+28XX
BrailleChars ==
    {"b00", "b01", "b03", "b04", "b06", "b07", "b08", "b09", "b0b", "b0f",
     "b11", "b12", "b13", "b17", "b18", "b19", "b1b", "b1e", "b1f", "b20",
     "b26", "b2d", "b31", "b33", "b36", "b38", "b39", "b3b", "b3e", "b3f",
     "b40", "b44", "b46", "b47", "b4f", "b50", "b5b", "b5c", "b5d", "b5e",
     "b5f", "b60", "b67", "b74", "b76", "b77", "b7d", "b7e", "b7f", "b80",
     "b87", "b89", "b98", "b9d", "ba0", "ba4", "ba9", "bb0", "bb6", "bb7",
     "bb8", "bb9", "bba", "bbb", "bbf", "bc0", "bc1", "bc4", "bc5", "bc6",
     "bc7", "bc8", "bc9", "bcd", "bcf", "bdf", "be0", "be4", "be6", "be7",
     "be9", "beb", "bed", "bf0", "bf4", "bf6", "bf7", "bf8", "bf9", "bfa",
     "bfb", "bfc", "bfe", "bff"}

\* the characters that take three bytes in UTF-8
WideChars == {"FILLED", "TRANSITION", "EMPTY", "HLINE", "VLINE",
              "CORNER_TL", "CORNER_TR", "CORNER_BL", "CORNER_BR"} \cup BrailleChars

\* two-byte characters, for the inputs outside ASCII
TwoByteChars == {"e_acute"}

CharBytes(c) == IF c \in WideChars THEN 3 ELSE IF c \in TwoByteChars THEN 2 ELSE 1

\* str::len: the bytes of s, one per character and the extra ones of the
\* characters outside ASCII
ByteLen(s) ==
    Len(s) + Cardinality({k \in 1..Len(s) : s[k] \in TwoByteChars})
           + 2 * Cardinality({k \in 1..Len(s) : s[k] \in WideChars})

\* the function f on 1..n as a sequence in TLC's tuple form
AsSeq(f) == SubSeq(f, 1, Len(f))

\* str::repeat of a one-character string
Repeat(c, n) == AsSeq([k \in 1..n |-> c])

\* format!("{:<width$}", s): pads to width characters, never cuts
PadLeft(s, width) == s \o Repeat(" ", Max(0, width - Len(s)))

\* format!("{:>width$}", s)
PadRight(s, width) == Repeat(" ", Max(0, width - Len(s))) \o s

\* the pieces of s between its newlines
SplitNewline(s) ==
    LET newlines == {k \in 1..Len(s) : s[k] = "\n"}
        n == Cardinality(newlines)
        \* the position of the j-th newline; 0 before the first, Len(s) + 1 past the last
        at == [j \in 0..(n + 1) |->
                  IF j = 0 THEN 0
                  ELSE IF j > n THEN Len(s) + 1
                  ELSE CHOOSE k \in newlines : Cardinality({m \in newlines : m <= k}) = j]
    IN  AsSeq([j \in 1..(n + 1) |-> SubSeq(s, at[j - 1] + 1, at[j] - 1)])

\* str::lines: the lines of s, a final newline ending the last line
Lines(s) ==
    LET parts == SplitNewline(s)
    IN  IF parts[Len(parts)] = <<>> THEN SubSeq(parts, 1, Len(parts) - 1) ELSE parts

\* the strings over alphabet of length up to n
Strings(alphabet, n) == UNION {[1..k -> alphabet] : k \in 0..n}

DigitChar(d) == <<"0", "1", "2", "3", "4", "5", "6", "7", "8", "9">>[d + 1]

RECURSIVE Decimal(_)
\* u64::to_string
Decimal(n) == IF n < 10 THEN <<DigitChar(n)>>
              ELSE Decimal(n \div 10) \o <<DigitChar(n % 10)>>

\* chrono's %m, %d, %H, %M (width 2) and %Y (width 4): zero-padded
ZeroPad(n, width) == Repeat("0", Max(0, width - Len(Decimal(n)))) \o Decimal(n)

-----------------------------------------------------------------------------
(* f64, as far as the program uses it: an exact fraction num/den, or NaN.  *)

NaN == [nan |-> TRUE, num |-> 0, den |-> 1]

Frac(n, d) == [nan |-> FALSE, num |-> n, den |-> d]

\* f64::partial_cmp: "None" when either side is NaN
PartialCmp(a, b) ==
    IF a.nan \/ b.nan THEN "None"
    ELSE IF a.num * b.den < b.num * a.den THEN "Less"
    ELSE IF a.num * b.den > b.num * a.den THEN "Greater"
    ELSE "Equal"

\* f64::round of n/d (d > 0): to the nearest integer, halves away from zero
RoundHalfAway(n, d) ==
    IF n >= 0 THEN (2 * n + d) \div (2 * d)
    ELSE 0 - ((2 * (0 - n) + d) \div (2 * d))

\* `x as usize` of an integral f64: saturating, and 0 below zero
AsUsize(x) == IF x < 0 THEN 0 ELSE Min(x, UsizeModulus - 1)

-----------------------------------------------------------------------------
(* create_ascii_bar                                                        *)

\* the width main passes
BAR_WIDTH == 20

filled_width_mut(percentage, width) ==
    IF percentage.nan THEN 0
    ELSE AsUsize((percentage.num * width) \div (percentage.den * 100))

\* ((percentage / 100.0) * width as f64).round() as usize; NaN casts to 0
filled_width(percentage, width) ==
    IF percentage.nan THEN 0
    ELSE AsUsize(RoundHalfAway(percentage.num * width, percentage.den * 100))

bar_cells_mut(filled, width) ==
    [k \in 1..width |->
        IF k - 1 <= filled THEN "FILLED" ELSE "EMPTY"]

\* the loop `for i in 0..width`, one cell per index (cell k is index k - 1)
bar_cells(filled, width) ==
    [k \in 1..width |->
        IF k - 1 < filled THEN "FILLED"
        ELSE IF k - 1 = filled THEN "TRANSITION"
        ELSE "EMPTY"]

create_ascii_bar(percentage, width) ==
    <<"[">> \o bar_cells(filled_width(percentage, width), width) \o <<"]">>

\* the (percentage, width) pairs the bar is checked on
BarPercents ==
    {Frac(n, PercentDen) :
        n \in (0 - PercentBeyond * PercentDen)..((100 + PercentBeyond) * PercentDen)}
    \cup {NaN}

BarWidths == (1..MaxBarWidth) \cup {BAR_WIDTH}

InitCommon ==
    /\ overflow_checks \in BOOLEAN
    /\ clock = 0
    /\ repo_idx = 0
    /\ languages = <<>>
    /\ language_percentages = <<>>
    /\ top_languages = <<>>
    /\ header_lines = <<>>
    /\ badge_lines = <<>>
    /\ i = 0
    /\ output = <<>>
    /\ documents = <<>>

InitBar ==
    /\ pc = "call"
    /\ args \in [percentage : BarPercents, width : BarWidths]
    /\ input = <<>>
    /\ ret = <<>>
    /\ InitCommon

\* a call of create_ascii_bar
CallBar ==
    /\ pc = "call"
    /\ ret' = create_ascii_bar(args.percentage, args.width)
    /\ pc' = "returned"
    /\ UNCHANGED <<overflow_checks, input, clock, args, repo_idx, languages,
                   language_percentages, top_languages, header_lines,
                   badge_lines, i, output, documents>>

SpecBar == InitBar /\ [][CallBar]_vars

\* the number of cells of a bar (brackets included) that hold character c
CountChar(s, c) == Cardinality({k \in 1..Len(s) : s[k] = c})

\* round(percent/100 * width) clamped to [0, width], stated from the definition
\* of rounding (the integer r with r <= x + 1/2 < r + 1, x >= 0) and not from
\* the code's arithmetic
ExpectedFilled(percentage, width) ==
    IF percentage.num <= 0 THEN 0
    ELSE IF percentage.num >= 100 * percentage.den THEN width
    ELSE CHOOSE r \in 0..width :
            /\ 2 * r * percentage.den * 100
                   <= 2 * percentage.num * width + percentage.den * 100
            /\ 2 * percentage.num * width + percentage.den * 100
                   < 2 * (r + 1) * percentage.den * 100

InUnitRange(percentage) ==
    /\ ~percentage.nan
    /\ 0 <= percentage.num
    /\ percentage.num <= 100 * percentage.den

\* C1: for a percent in [0,100] and a width >= 1 the bar has width + 2
\* characters, the two brackets around width cells, and its number of FILLED
\* cells is round(percent/100 * width) clamped to [0, width].
C1_BarLengthAndFill ==
    (pc = "returned" /\ InUnitRange(args.percentage)) =>
        /\ Len(ret) = args.width + 2
        /\ ret[1] = "[" /\ ret[Len(ret)] = "]"
        /\ \A k \in 2..(Len(ret) - 1) : ret[k] \in {"FILLED", "TRANSITION", "EMPTY"}
        /\ CountChar(ret, "FILLED") = ExpectedFilled(args.percentage, args.width)

\* C1's case: 2.5 % of twenty cells is exactly half a cell and rounds up to one
C1_Witness ==
    /\ pc = "returned"
    /\ InUnitRange(args.percentage)
    /\ args.width = BAR_WIDTH
    /\ 2 * args.percentage.num * args.width = args.percentage.den * 100
    /\ CountChar(ret, "FILLED") = 1

\* C10: for every percent, also below 0 and above 100, and every width >= 1
\* the width cells are filled FILLED, then one TRANSITION at index filled when
\* filled < width and none when filled = width, then EMPTY only, where filled
\* is the rounded fill count clamped to [0, width].
C10_BarShape ==
    (pc = "returned" /\ ~args.percentage.nan) =>
        LET filled == ExpectedFilled(args.percentage, args.width)
            cell(j) == ret[j + 2]
        IN  /\ Len(ret) = args.width + 2
            /\ \A j \in 0..(args.width - 1) :
                  cell(j) = IF j < filled THEN "FILLED"
                            ELSE IF j = filled THEN "TRANSITION"
                            ELSE "EMPTY"
            /\ CountChar(ret, "TRANSITION") = IF filled < args.width THEN 1 ELSE 0

\* C10's case: a percent below zero, the first cell is the transition cell
C10_Witness ==
    /\ pc = "returned"
    /\ ~args.percentage.nan
    /\ args.percentage.num < 0
    /\ ret[2] = "TRANSITION"
    /\ CountChar(ret, "EMPTY") = args.width - 1

-----------------------------------------------------------------------------
(* create_ascii_badge                                                      *)

\* the width main passes
BADGE_WIDTH == 20

badge_total_width_mut(label, value, width) == width

\* width.max(label.len() + value.len() + 4)
badge_total_width(label, value, width) ==
    Max(width, ByteLen(label) + ByteLen(value) + 4)

\* label.len() + 2
badge_label_width(label) == ByteLen(label) + 2

\* whether one of the three usize subtractions of the function overflows
badge_overflows(label, value, width) ==
    LET total_width == badge_total_width(label, value, width)
        label_width == badge_label_width(label)
    IN  \/ SubOverflows(total_width, label_width)
        \/ SubOverflows(label_width, 2)
        \/ SubOverflows(total_width - label_width, 2)

\* the function, when no subtraction overflows
create_ascii_badge(label, value, width) ==
    LET total_width == badge_total_width(label, value, width)
        label_width == badge_label_width(label)
        value_width == total_width - label_width
        top_bottom == Repeat("HLINE", total_width)
        label_part == <<" ">> \o PadLeft(label, label_width - 2)
        value_part == <<" ">> \o PadLeft(value, value_width - 2) \o <<" ">>
    IN  <<"CORNER_TL">> \o top_bottom \o <<"CORNER_TR", "\n">>
        \o <<"VLINE">> \o label_part \o <<"VLINE">> \o value_part \o <<"VLINE", "\n">>
        \o <<"CORNER_BL">> \o top_bottom \o <<"CORNER_BR">>

Followers == <<"F", "o", "l", "l", "o", "w", "e", "r", "s">>

Stars == <<"S", "t", "a", "r", "s">>

\* the calls the badge is checked on: short strings with and without a
\* character outside ASCII, and the two labels of main at main's width
BadgeCalls ==
    [label : Strings({"a", "e_acute"}, MaxTextLen),
     value : Strings({"7", "e_acute"}, MaxTextLen),
     width : 0..MaxBadgeWidth]
    \cup [label : {Followers, Stars},
          value : {Decimal(0), Decimal(42), Decimal(12345678)},
          width : {BADGE_WIDTH}]

InitBadge ==
    /\ pc = "call"
    /\ args \in BadgeCalls
    /\ input = <<>>
    /\ ret = <<>>
    /\ InitCommon

\* a call of create_ascii_badge.  An overflowing subtraction panics with the
\* overflow checks on; with them off the wrapped width asks format! for more
\* padding than memory holds.  Neither returns.
CallBadge ==
    /\ pc = "call"
    /\ IF badge_overflows(args.label, args.value, args.width)
       THEN pc' = "panicked" /\ ret' = ret
       ELSE /\ pc' = "returned"
            /\ ret' = create_ascii_badge(args.label, args.value, args.width)
    /\ UNCHANGED <<overflow_checks, input, clock, args, repo_idx, languages,
                   language_percentages, top_languages, header_lines,
                   badge_lines, i, output, documents>>

SpecBadge == InitBadge /\ [][CallBadge]_vars

\* whether s occurs in line as a contiguous run
Contains(line, s) ==
    \E k \in 1..(Len(line) - Len(s) + 1) : SubSeq(line, k, k + Len(s) - 1) = s

\* C8: for every label, value and minWidth the badge is three lines with
\* totalWidth = max(minWidth, len(label) + len(value) + 4): the two borders
\* have totalWidth + 2 characters each, the middle line holds the whole label
\* and the whole value, and valueWidth = totalWidth - (len(label) + 2) is at
\* least 1, so no width subtraction overflows and the call returns.
C8_BadgeShape ==
    (pc # "call") =>
        LET total == Max(args.width, ByteLen(args.label) + ByteLen(args.value) + 4)
            lines == Lines(ret)
        IN  /\ pc = "returned"
            /\ total - (ByteLen(args.label) + 2) >= 1
            /\ Len(lines) = 3
            /\ lines[1] = <<"CORNER_TL">> \o Repeat("HLINE", total) \o <<"CORNER_TR">>
            /\ lines[3] = <<"CORNER_BL">> \o Repeat("HLINE", total) \o <<"CORNER_BR">>
            /\ Len(lines[1]) = total + 2 /\ Len(lines[3]) = total + 2
            /\ lines[2][1] = "VLINE" /\ lines[2][Len(lines[2])] = "VLINE"
            /\ Contains(lines[2], <<"VLINE", " ">> \o args.label)
            /\ Contains(lines[2], <<"VLINE", " ">> \o args.value)

\* C8's case: the label and the value alone are wider than the width asked
\* for, and the badge is widened
C8_Witness ==
    /\ pc = "returned"
    /\ ByteLen(args.label) + ByteLen(args.value) + 4 > args.width
    /\ args.label # <<>> /\ args.value # <<>>
    /\ Len(Lines(ret)[1]) = ByteLen(args.label) + ByteLen(args.value) + 6
    /\ Contains(Lines(ret)[2], args.label) /\ Contains(Lines(ret)[2], args.value)

-----------------------------------------------------------------------------
(* format_activity                                                         *)

Digits == {"0", "1", "2", "3", "4", "5", "6", "7", "8", "9"}

DigitValue(c) == CHOOSE d \in 0..9 : DigitChar(d) = c

RECURSIVE Number(_)
\* the value of a run of digits
Number(s) == IF s = <<>> THEN 0
             ELSE 10 * Number(SubSeq(s, 1, Len(s) - 1)) + DigitValue(s[Len(s)])

AllDigits(s) == \A k \in 1..Len(s) : s[k] \in Digits

IsLeapYear(y) == (y % 4 = 0 /\ y % 100 # 0) \/ y % 400 = 0

DaysInMonth(y, m) ==
    IF m = 2 THEN (IF IsLeapYear(y) THEN 29 ELSE 28)
    ELSE IF m \in {4, 6, 9, 11} THEN 30 ELSE 31

\* the zone of an RFC 3339 timestamp: Z, or a sign and hh:mm
IsZone(z) ==
    \/ z = <<"Z">>
    \/ /\ Len(z) = 6
       /\ z[1] \in {"+", "-"}
       /\ z[4] = ":"
       /\ AllDigits(SubSeq(z, 2, 3)) /\ AllDigits(SubSeq(z, 5, 6))
       /\ Number(SubSeq(z, 2, 3)) <= 23 /\ Number(SubSeq(z, 5, 6)) <= 59

\* the seconds' fraction and the zone that follow hh:mm:ss
IsFractionAndZone(rest) ==
    \/ IsZone(rest)
    \/ /\ Len(rest) >= 3
       /\ rest[1] = "."
       /\ \E k \in 2..(Len(rest) - 1) :
             /\ AllDigits(SubSeq(rest, 2, k))
             /\ IsZone(SubSeq(rest, k + 1, Len(rest)))

\* DateTime::parse_from_rfc3339 on yyyy-mm-ddThh:mm:ss[.f](Z|+hh:mm|-hh:mm): the
\* fields as written (the DateTime keeps the offset, and format prints in it),
\* or ok = FALSE for the Err
parse_from_rfc3339(s) ==
    LET bad == [ok |-> FALSE, year |-> 0, month |-> 0, day |-> 0, hour |-> 0, minute |-> 0]
    IN  IF Len(s) < 20 THEN bad
        ELSE IF ~(/\ AllDigits(SubSeq(s, 1, 4)) /\ s[5] = "-"
                  /\ AllDigits(SubSeq(s, 6, 7)) /\ s[8] = "-"
                  /\ AllDigits(SubSeq(s, 9, 10)) /\ s[11] = "T"
                  /\ AllDigits(SubSeq(s, 12, 13)) /\ s[14] = ":"
                  /\ AllDigits(SubSeq(s, 15, 16)) /\ s[17] = ":"
                  /\ AllDigits(SubSeq(s, 18, 19))
                  /\ IsFractionAndZone(SubSeq(s, 20, Len(s)))) THEN bad
        ELSE LET y == Number(SubSeq(s, 1, 4))
                 mo == Number(SubSeq(s, 6, 7))
                 d == Number(SubSeq(s, 9, 10))
                 h == Number(SubSeq(s, 12, 13))
                 mi == Number(SubSeq(s, 15, 16))
                 sec == Number(SubSeq(s, 18, 19))
             IN  IF /\ mo \in 1..12 /\ d >= 1 /\ d <= DaysInMonth(y, mo)
                    /\ h <= 23 /\ mi <= 59 /\ sec <= 60
                 THEN [ok |-> TRUE, year |-> y, month |-> mo, day |-> d,
                       hour |-> h, minute |-> mi]
                 ELSE bad

\* Utc::now() when the clock stands at instant t
UtcNow(t) == [ok |-> TRUE, year |-> 2026, month |-> 11, day |-> 1,
              hour |-> 12, minute |-> t]

\* dt.format("%Y-%m-%d %H:%M")
format_datetime(dt) ==
    ZeroPad(dt.year, 4) \o <<"-">> \o ZeroPad(dt.month, 2) \o <<"-">>
    \o ZeroPad(dt.day, 2) \o <<" ">> \o ZeroPad(dt.hour, 2) \o <<":">>
    \o ZeroPad(dt.minute, 2)

RECURSIVE Replace(_, _, _)
\* str::replace(from, to): the matches of from, left to right and not
\* overlapping, each replaced by to
Replace(s, from, to) ==
    IF Len(s) < Len(from) \/ from = <<>> THEN s
    ELSE IF SubSeq(s, 1, Len(from)) = from
         THEN to \o Replace(SubSeq(s, Len(from) + 1, Len(s)), from, to)
         ELSE <<Head(s)>> \o Replace(Tail(s), from, to)

EventWord == <<"E", "v", "e", "n", "t">>

Separator == <<" ", "|", " ">>

format_activity_mut(activity, now) ==
    LET event_type == Replace(activity.type, EventWord, <<>>)
        parsed == parse_from_rfc3339(activity.created_at)
        dt == IF parsed.ok THEN parsed ELSE now
    IN  PadLeft(format_datetime(dt), 15) \o Separator
        \o PadLeft(event_type, 16) \o Separator \o activity.repo

\* format_activity; a missing field of the JSON arrives as the empty string,
\* and now is what Utc::now() returns if the timestamp does not parse
format_activity(activity, now) ==
    LET event_type == Replace(activity.type, EventWord, <<>>)
        parsed == parse_from_rfc3339(activity.created_at)
        dt == IF parsed.ok THEN parsed ELSE now
    IN  PadLeft(format_datetime(dt), 16) \o Separator
        \o PadLeft(event_type, 15) \o Separator \o activity.repo

PushEvent == <<"P", "u", "s", "h", "E", "v", "e", "n", "t">>

EventTypes ==
    {PushEvent,
     <<"W", "a", "t", "c", "h", "E", "v", "e", "n", "t">>,
     <<"P", "u", "l", "l", "R", "e", "q", "u", "e", "s", "t", "R", "e", "v", "i", "e", "w", "C", "o", "m", "m", "e", "n", "t", "E", "v", "e", "n", "t">>,
     <<"E", "v", "e", "n", "t", "E", "v", "e", "n", "t">>,
     <<"E", "v", "E", "v", "e", "n", "t", "e", "n", "t">>,
     <<"F", "o", "r", "k">>,
     <<>>}

RepoAB == <<"a", "/", "b">>

RepoNames ==
    {RepoAB,
     <<"m", "4", "s", "t", "e", "r", "-", "s", "l", "a", "v", "e", "/", "m", "4", "s", "t", "e", "r", "-", "s", "l", "a", "v", "e">>,
     <<>>}

Timestamp1 == <<"2", "0", "2", "4", "-", "0", "1", "-", "0", "2", "T", "0", "3", ":", "0", "4", ":", "0", "5", "Z">>

Timestamps ==
    {Timestamp1,
     <<"2", "0", "2", "3", "-", "1", "2", "-", "3", "1", "T", "2", "3", ":", "5", "9", ":", "5", "9", "+", "0", "2", ":", "0", "0">>,
     <<"2", "0", "2", "4", "-", "0", "2", "-", "2", "9", "T", "1", "0", ":", "2", "0", ":", "3", "0", ".", "1", "2", "5", "-", "0", "5", ":", "0", "0">>,
     <<"2", "0", "2", "3", "-", "0", "2", "-", "2", "9", "T", "1", "0", ":", "2", "0", ":", "3", "0", "Z">>,
     <<"2", "0", "2", "4", "-", "1", "3", "-", "0", "1", "T", "0", "0", ":", "0", "0", ":", "0", "0", "Z">>,
     <<"2", "0", "2", "4", "-", "0", "1", "-", "0", "2">>,
     <<>>}

Activities == [type : EventTypes, repo : RepoNames, created_at : Timestamps]

InitActivity ==
    /\ pc = "call"
    /\ args \in Activities
    /\ input = <<>>
    /\ ret = <<>>
    /\ InitCommon

\* a call of format_activity whose timestamp parses: the clock is not read
CallActivityParsed ==
    /\ pc = "call"
    /\ parse_from_rfc3339(args.created_at).ok
    /\ ret' = format_activity(args, UtcNow(clock))
    /\ pc' = "returned"
    /\ UNCHANGED <<overflow_checks, input, clock, args, repo_idx, languages,
                   language_percentages, top_languages, header_lines,
                   badge_lines, i, output, documents>>

\* a call of format_activity whose timestamp does not parse: Utc::now() is read
CallActivityFallback ==
    /\ pc = "call"
    /\ ~parse_from_rfc3339(args.created_at).ok
    /\ \E t \in clock..MaxClock :
          /\ clock' = t
          /\ ret' = format_activity(args, UtcNow(t))
    /\ pc' = "returned"
    /\ UNCHANGED <<overflow_checks, input, args, repo_idx, languages,
                   language_percentages, top_languages, header_lines,
                   badge_lines, i, output, documents>>

SpecActivity == InitActivity /\ [][CallActivityParsed \/ CallActivityFallback]_vars

\* the position of the first occurrence of word in s, 0 when there is none
FirstOccurrence(s, word) ==
    LET at == {k \in 1..(Len(s) - Len(word) + 1) : SubSeq(s, k, k + Len(word) - 1) = word}
    IN  IF at = {} THEN 0 ELSE CHOOSE k \in at : \A j \in at : k <= j

RECURSIVE WithoutWord(_, _)
\* s with every occurrence of word cut out, the leftmost first
WithoutWord(s, word) ==
    LET k == FirstOccurrence(s, word)
    IN  IF k = 0 THEN s
        ELSE SubSeq(s, 1, k - 1) \o WithoutWord(SubSeq(s, k + Len(word), Len(s)), word)

\* s without its suffix word, if it ends in it
WithoutSuffix(s, word) ==
    IF Len(s) >= Len(word) /\ SubSeq(s, Len(s) - Len(word) + 1, Len(s)) = word
    THEN SubSeq(s, 1, Len(s) - Len(word))
    ELSE s

\* yyyy-mm-dd hh:mm of a timestamp yyyy-mm-ddThh:mm:ss..., read off its text
WrittenMinute(created_at) == SubSeq(created_at, 1, 10) \o <<" ">> \o SubSeq(created_at, 12, 16)

-----------------------------------------------------------------------------
(* get_all_languages                                                       *)

\* language_percentages.truncate(10)
TOP_LANGUAGES == 10

\* the name of the k-th language of the model
Lang(k) == <<"L">> \o Decimal(k)

\* A repository as the fetches return it: has_url says whether the record has
\* a languages_url string, langs is its language object as the sequence of
\* (lang, bytes) entries in the object's iteration order, the keys distinct.
\* A negative bytes is a JSON value that is no u64.
Repo(has_url, langs) == [has_url |-> has_url, langs |-> langs]

Entry(lang, bytes) == [lang |-> lang, bytes |-> bytes]

RECURSIVE AddEntries(_, _)
\* the loop `for (lang, bytes) in obj`: entry(lang).or_insert(0) += as_u64 or 0
AddEntries(map, langs) ==
    IF langs = <<>> THEN map
    ELSE LET e == Head(langs)
             add == IF e.bytes >= 0 THEN e.bytes ELSE 0
             old == IF e.lang \in DOMAIN map THEN map[e.lang] ELSE 0
         IN  AddEntries([l \in (DOMAIN map) \cup {e.lang} |->
                            IF l = e.lang THEN old + add ELSE map[l]],
                        Tail(langs))

RECURSIVE SumOver(_, _)
\* the sum of f over the set S
SumOver(f, S) ==
    IF S = {} THEN 0
    ELSE LET x == CHOOSE y \in S : TRUE IN f[x] + SumOver(f, S \ {x})

\* languages.values().sum()
total_bytes(map) == SumOver(map, DOMAIN map)

\* count as f64 / total_bytes as f64 * 100.0; 0.0 / 0.0 is NaN
percentage_of(count, total) ==
    IF total = 0 THEN NaN ELSE Frac(count * 100, total)

RECURSIVE FirstSeenFrom(_, _)
\* the languages of the repositories in the order they are first met
FirstSeenFrom(entries, seen) ==
    IF entries = <<>> THEN seen
    ELSE IF \E k \in 1..Len(seen) : seen[k] = Head(entries).lang
         THEN FirstSeenFrom(Tail(entries), seen)
         ELSE FirstSeenFrom(Tail(entries), Append(seen, Head(entries).lang))

RECURSIVE AllEntries(_)
\* the entries of the repositories that are read, in the order they are read
AllEntries(repos) ==
    IF repos = <<>> THEN <<>>
    ELSE (IF Head(repos).has_url THEN Head(repos).langs ELSE <<>>)
         \o AllEntries(Tail(repos))

FirstSeen(repos) == FirstSeenFrom(AllEntries(repos), <<>>)

\* the orders in which a sequence's elements come out of the HashMap: every
\* order for up to MaxPermKeys keys; for more keys the rotations of the
\* sequence and of its reverse (all six orders of three keys; beyond, the
\* orders are too many to try them all)
IterOrders(keys) ==
    LET n == Len(keys)
    IN  IF n <= MaxPermKeys
        THEN {[k \in 1..n |-> keys[p[k]]] :
                 p \in {q \in [1..n -> 1..n] : \A a, b \in 1..n : a # b => q[a] # q[b]}}
        ELSE {[k \in 1..n |-> keys[((k - 1 + r) % n) + 1]] : r \in 0..(n - 1)}
             \cup {[k \in 1..n |-> keys[n - ((k - 1 + r) % n)]] : r \in 0..(n - 1)}

comes_before_mut(a, b) == PartialCmp(a.percent, b.percent) = "Less"

\* the comparator |a, b| b.1.partial_cmp(&a.1): Less puts a before b
comes_before(a, b) == PartialCmp(b.percent, a.percent) = "Less"

RECURSIVE InsertStable(_, _)
\* x put into the sorted sequence, behind the elements it does not come before
InsertStable(sorted, x) ==
    IF sorted = <<>> THEN <<x>>
    ELSE IF comes_before(x, Head(sorted)) THEN <<x>> \o sorted
    ELSE <<Head(sorted)>> \o InsertStable(Tail(sorted), x)

RECURSIVE SortFrom(_, _)
SortFrom(rest, sorted) ==
    IF rest = <<>> THEN sorted
    ELSE SortFrom(Tail(rest), InsertStable(sorted, Head(rest)))

\* Vec::sort_by with the comparator: a stable sort
sort_by(v) == SortFrom(v, <<>>)

\* whether sort_by calls the comparator on a NaN: a slice of two or more
\* elements has each of its elements compared at least once
sort_unwraps_none(v) == Len(v) >= 2 /\ \E k \in 1..Len(v) : v[k].percent.nan

truncate_mut(v, n) == SubSeq(v, 1, Min(Len(v), n + 1))

\* Vec::truncate
truncate(v, n) == SubSeq(v, 1, Min(Len(v), n))

\* the repositories the aggregation is checked on
SmallLangSets == SUBSET (1..MaxSmallLangs)

RECURSIVE EntriesOf(_, _, _)
\* the entries of the languages from..n, in key order, bytes[k] for language k
EntriesOf(from, n, bytes) ==
    IF from > n THEN <<>>
    ELSE (IF from \in DOMAIN bytes THEN <<Entry(Lang(from), bytes[from])>> ELSE <<>>)
         \o EntriesOf(from + 1, n, bytes)

SmallRepos ==
    {Repo(TRUE, EntriesOf(1, MaxSmallLangs, bytes)) :
        bytes \in UNION {[S -> 0..MaxBytes] : S \in SmallLangSets}}

WideRepos ==
    UNION {{Repo(TRUE, EntriesOf(1, n, [k \in 1..n |-> 1])),
            Repo(TRUE, EntriesOf(1, n, [k \in 1..n |-> 0])),
            Repo(TRUE, EntriesOf(1, n, [k \in 1..n |-> k])),
            Repo(TRUE, EntriesOf(1, n, [k \in 1..n |-> (n - k) \div 2]))} :
           n \in 3..MaxLangs}

OddRepos ==
    {Repo(FALSE, EntriesOf(1, 1, [k \in 1..1 |-> 1])),
     Repo(TRUE, EntriesOf(1, 2, [k \in 1..2 |-> k - 2]))}

RepoLists ==
    {<<>>}
    \cup {<<r>> : r \in SmallRepos \cup WideRepos \cup OddRepos}
    \cup {<<r, t>> : r \in SmallRepos \cup WideRepos \cup OddRepos, t \in SmallRepos}

InitAggregate ==
    /\ pc = "agg_loop"
    /\ input \in [repos : RepoLists]
    /\ args = <<>>
    /\ ret = <<>>
    /\ InitCommon

\* one round of `for repo in repos`: a repository without a languages_url
\* is passed over
AggRepo ==
    /\ pc = "agg_loop"
    /\ repo_idx < Len(input.repos)
    /\ LET repo == input.repos[repo_idx + 1]
       IN  languages' = IF repo.has_url THEN AddEntries(languages, repo.langs)
                        ELSE languages
    /\ repo_idx' = repo_idx + 1
    /\ UNCHANGED <<pc, overflow_checks, input, clock, args, ret,
                   language_percentages, top_languages, header_lines,
                   badge_lines, i, output, documents>>

\* total_bytes, and languages.into_iter().map(..).collect(): the HashMap
\* hands its entries over in an order of its own
AggCollect ==
    /\ pc = "agg_loop"
    /\ repo_idx = Len(input.repos)
    /\ \E order \in IterOrders(FirstSeen(input.repos)) :
          language_percentages' =
              AsSeq([k \in 1..Len(order) |->
                        [lang |-> order[k],
                         percent |-> percentage_of(languages[order[k]],
                                                   total_bytes(languages))]])
    /\ pc' = "agg_sort"
    /\ UNCHANGED <<overflow_checks, input, clock, args, ret, repo_idx, languages,
                   top_languages, header_lines, badge_lines, i, output, documents>>

\* language_percentages.sort_by(..): partial_cmp(..).unwrap() panics on None
AggSortPanic ==
    /\ pc = "agg_sort"
    /\ sort_unwraps_none(language_percentages)
    /\ pc' = "panicked"
    /\ UNCHANGED <<overflow_checks, input, clock, args, ret, repo_idx, languages,
                   language_percentages, top_languages, header_lines,
                   badge_lines, i, output, documents>>

AggSort ==
    /\ pc = "agg_sort"
    /\ ~sort_unwraps_none(language_percentages)
    /\ language_percentages' = sort_by(language_percentages)
    /\ pc' = "agg_truncate"
    /\ UNCHANGED <<overflow_checks, input, clock, args, ret, repo_idx, languages,
                   top_languages, header_lines, badge_lines, i, output, documents>>

\* language_percentages.truncate(10), and the return to main
AggReturn ==
    /\ pc = "agg_truncate"
    /\ top_languages' = truncate(language_percentages, TOP_LANGUAGES)
    /\ pc' = "agg_returned"
    /\ UNCHANGED <<overflow_checks, input, clock, args, ret, repo_idx, languages,
                   language_percentages, header_lines, badge_lines, i, output,
                   documents>>

NextAggregate == AggRepo \/ AggCollect \/ AggSortPanic \/ AggSort \/ AggReturn

SpecAggregate == InitAggregate /\ [][NextAggregate]_vars

RECURSIVE BytesOf(_, _)
\* the bytes the entries give to lang, a value that is no u64 counting as 0
BytesOf(lang, entries) ==
    IF entries = <<>> THEN 0
    ELSE (IF Head(entries).lang = lang /\ Head(entries).bytes > 0
          THEN Head(entries).bytes ELSE 0)
         + BytesOf(lang, Tail(entries))

RECURSIVE BytesOfAll(_)
BytesOfAll(entries) ==
    IF entries = <<>> THEN 0
    ELSE Max(Head(entries).bytes, 0) + BytesOfAll(Tail(entries))

\* the byte total of the input over all repositories and languages
InputTotal == BytesOfAll(AllEntries(input.repos))

\* the number of distinct languages of the input
InputLanguages == Len(FirstSeen(input.repos))

AggEnded == pc \in {"agg_returned", "panicked"}

\* C2: when the byte total over all languages is 0 (no language at all, or
\* languages whose byte counts are all 0) the aggregation returns the empty
\* sequence and does not abort.
C2_ZeroTotalIsEmpty ==
    (AggEnded /\ InputTotal = 0) => (pc = "agg_returned" /\ top_languages = <<>>)

RECURSIVE Gcd(_, _)
Gcd(a, b) == IF b = 0 THEN a ELSE Gcd(b, a % b)

\* the sum of two fractions, in lowest terms
FracAdd(a, b) ==
    LET n == a.num * b.den + b.num * a.den
        d == a.den * b.den
        g == Gcd(n, d)
    IN  Frac(n \div g, d \div g)

RECURSIVE PercentSum(_)
\* the sum of the percentages of a result
PercentSum(v) ==
    IF v = <<>> THEN Frac(0, 1) ELSE FracAdd(Head(v).percent, PercentSum(Tail(v)))

\* C3: for an input with a non-zero total the aggregation returns at most 10
\* entries, one per language, sorted non-increasing by percent, each percent
\* being the language's bytes summed over the repositories, divided by the
\* total, times 100; the percentages sum to at most 100, and to exactly 100
\* when the input has at most 10 distinct languages.
C3_RankedShares ==
    (AggEnded /\ InputTotal > 0) =>
        LET entries == AllEntries(input.repos)
            seen == FirstSeen(input.repos)
            total == InputTotal
            bytes == [l \in {seen[k] : k \in 1..Len(seen)} |-> BytesOf(l, entries)]
            top == top_languages
            returned == {top[k].lang : k \in 1..Len(top)}
            sum == PercentSum(top)
        IN  /\ pc = "agg_returned"
            /\ Len(top) = Min(Len(seen), 10)
            /\ Cardinality(returned) = Len(top)
            /\ \A k \in 1..Len(top) :
                  /\ ~top[k].percent.nan
                  /\ top[k].percent.num * total = 100 * bytes[top[k].lang] * top[k].percent.den
            /\ \A k \in 1..(Len(top) - 1) :
                  top[k].percent.num * top[k + 1].percent.den
                      >= top[k + 1].percent.num * top[k].percent.den
            /\ \A l \in DOMAIN bytes \ returned :
                  \A k \in 1..Len(top) : bytes[l] <= bytes[top[k].lang]
            /\ sum.num <= 100 * sum.den
            /\ Len(seen) <= 10 => sum.num = 100 * sum.den

\* C3's case: more than ten languages with different shares, summed over two
\* repositories, of which the ten largest are returned
C3_Witness ==
    /\ pc = "agg_returned"
    /\ Len(input.repos) = 2
    /\ InputLanguages > 10
    /\ Len(top_languages) = 10
    /\ top_languages[1].percent # top_languages[10].percent
    /\ BytesOf(top_languages[10].lang, AllEntries(input.repos))
         > BytesOf(top_languages[10].lang, input.repos[1].langs)
    /\ PercentSum(top_languages).num < 100 * PercentSum(top_languages).den

RECURSIVE Ranked(_, _)
\* the languages left, ranked: the largest share first, and among equal
\* shares the one met first (left is in first-seen order)
Ranked(left, entries) ==
    IF left = <<>> THEN <<>>
    ELSE LET best == CHOOSE k \in 1..Len(left) :
                        /\ \A j \in 1..Len(left) :
                              BytesOf(left[j], entries) <= BytesOf(left[k], entries)
                        /\ \A j \in 1..(k - 1) :
                              BytesOf(left[j], entries) < BytesOf(left[k], entries)
         IN  <<left[best]>>
             \o Ranked(SubSeq(left, 1, best - 1) \o SubSeq(left, best + 1, Len(left)),
                       entries)

\* C4: the aggregation is deterministic: its result is the one sequence the
\* input fixes, the languages by percent with equal percents in first-seen
\* order, cut to the first 10, so two runs on one input return the same.
C4_FirstSeenTieBreak ==
    (AggEnded /\ InputTotal > 0) =>
        /\ pc = "agg_returned"
        /\ [k \in 1..Len(top_languages) |-> top_languages[k].lang]
             = SubSeq(Ranked(FirstSeen(input.repos), AllEntries(input.repos)),
                      1, Min(InputLanguages, 10))

-----------------------------------------------------------------------------
(* format_github_stats                                                     *)

StatsRule ==
    <<"+", "-", "-", "-", "-", "-", "-", "-", "-", "-", "-", "-", "-", "-",
      "+", "-", "-", "-", "-", "-", "-", "-", "-", "-", "-", "-", "-", "-",
      "-", "-", "-", "-", "-", "-", "-", "-", "-", "-", "-", "+", "-", "-",
      "-", "-", "-", "-", "-", "-", "-", "-", "-", "-", "-", "-", "-", "-",
      "+", "-", "-", "-", "-", "-", "-", "-", "-", "-", "-", "-", "-", "-",
      "-", "-", "-", "-", "-", "-", "-", "-", "-", "-", "-", "-", "-", "-",
      "-", "-", "-", "-", "-", "-", "-", "-", "-", "-", "-", "+">>

StatsHead ==
    <<"|", " ", " ", " ", "M", "e", "t", "r", "i", "c", " ", " ", " ", " ",
      "|", " ", " ", " ", " ", " ", " ", " ", " ", " ", "V", "a", "l", "u",
      "e", " ", " ", " ", " ", " ", " ", " ", " ", " ", " ", "|", " ", " ",
      " ", " ", " ", "M", "e", "t", "r", "i", "c", " ", " ", " ", " ", " ",
      "|", " ", " ", " ", " ", " ", " ", " ", " ", " ", " ", " ", " ", " ",
      " ", " ", " ", "V", "a", "l", "u", "e", " ", " ", " ", " ", " ", " ",
      " ", " ", " ", " ", " ", " ", " ", " ", " ", " ", " ", "|">>

\* one data row: the two counters right-aligned in 22 and 36 columns
stats_row(left, a, right, b) ==
    left \o PadRight(Decimal(a), 22) \o right \o PadRight(Decimal(b), 36) \o <<" ", "|">>

format_github_stats(stats) ==
    StatsRule \o <<"\n">> \o StatsHead \o <<"\n">> \o StatsRule \o <<"\n">>
    \o stats_row(<<"|", " ", " ", " ", "C", "o", "m", "m", "i", "t", "s", " ", " ", " ",
      "|", " ">>, stats.total_commits,
                 <<" ", "|", " ", "I", "s", "s", "u", "e", "s", " ", "o", "p", "e", "n",
      "e", "d", " ", " ", "|", " ">>, stats.total_issues) \o <<"\n">>
    \o stats_row(<<"|", " ", "P", "R", "s", " ", "o", "p", "e", "n", "e", "d", " ", " ",
      "|", " ">>, stats.total_prs,
                 <<" ", "|", " ", "S", "t", "a", "r", "s", " ", "r", "e", "c", "e", "i",
      "v", "e", "d", " ", "|", " ">>, stats.total_stars) \o <<"\n">>
    \o stats_row(<<"|", " ", "R", "e", "p", "o", "s", " ", "o", "w", "n", "e", "d", " ",
      "|", " ">>, stats.repos_owned,
                 <<" ", "|", " ", "C", "o", "n", "t", "r", "i", "b", "u", "t", "e", "d",
      " ", "t", "o", " ", "|", " ">>, stats.contributed_to) \o <<"\n">>
    \o StatsRule

-----------------------------------------------------------------------------
(* main                                                                    *)

\* the raw string `figure`: it opens with a newline and ends in four spaces
FIGURE ==
    <<"\n", "b00", "b00", "b00", "b00", "b00", "b00", "b00", "b00", "b00",
      "b00", "b00", "b00", "b00", "b00", "b00", "b00", "b00", "b00", "b00",
      "be0", "be4", "bc4", "b40", "b00", "b00", "b00", "bc0", "be0", "bc0",
      "b00", "b00", "b00", "b00", "b00", "b00", "b00", "\n", "b00", "b00",
      "b00", "b00", "b00", "b80", "bc4", "bc0", "bc0", "bc0", "b00", "b00",
      "b00", "b00", "b00", "b00", "bc0", "be0", "bfe", "b0f", "b09", "b19",
      "bbf", "bf6", "b7e", "b1f", "b1b", "b09", "b3b", "bf7", "b00", "b00",
      "b00", "b00", "b00", "b00", "\n", "b00", "b00", "b00", "b00", "bb0",
      "bff", "b0b", "b09", "b19", "b1b", "b3f", "bf6", "bf6", "b3f", "b3f",
      "b1f", "bbb", "bff", "b03", "b00", "ba0", "bf4", "be4", "bff", "be7",
      "bc4", "b40", "bc0", "bc0", "bff", "b46", "b00", "b00", "b00", "b00",
      "b00", "\n", "b00", "b00", "b00", "b00", "bff", "b4f", "b00", "b00",
      "b00", "b00", "b00", "b00", "b00", "b00", "b00", "b00", "bb8", "bcf",
      "b00", "b00", "bbb", "be7", "b7f", "b0b", "b09", "b09", "bbf", "bdf",
      "b09", "b19", "b3b", "be7", "b00", "b00", "b00", "b00", "\n", "b00",
      "b00", "b00", "b00", "bbb", "be7", "bc0", "b00", "b00", "b00", "b00",
      "b00", "b00", "b00", "b00", "b00", "b08", "bbf", "be6", "be4", "be4",
      "bff", "bf7", "b40", "b00", "b80", "bfe", "bff", "b67", "b00", "b80",
      "bff", "b00", "b00", "b00", "b00", "\n", "b00", "b00", "b00", "b00",
      "b98", "bff", "b0f", "b00", "b00", "b00", "b00", "b00", "b00", "b00",
      "b00", "b00", "b00", "b00", "b00", "b00", "b00", "b00", "b09", "b1b",
      "b3f", "bff", "b5b", "b09", "b01", "be0", "bff", "b47", "b00", "b00",
      "b00", "b00", "\n", "b00", "b00", "b00", "b00", "bfe", "b4f", "b00",
      "b00", "b00", "b00", "b00", "b00", "b00", "b00", "b00", "b00", "b00",
      "b00", "b00", "b00", "b00", "b00", "b00", "b00", "b00", "b08", "b1b",
      "b3f", "b1f", "b0b", "b18", "bff", "b00", "b00", "b00", "b00", "\n",
      "b00", "b00", "b00", "ba0", "bff", "b04", "b00", "b00", "b00", "b00",
      "b00", "b00", "b00", "b00", "b00", "b00", "b00", "b00", "b00", "b00",
      "b00", "b00", "b00", "b00", "b20", "b00", "b00", "b00", "b00", "be4",
      "b76", "bff", "b77", "b36", "b36", "b06", "\n", "b00", "bc0", "be0",
      "bfc", "bff", "be4", "be4", "b00", "b00", "b00", "be0", "be6", "b40",
      "b00", "b00", "b00", "b00", "b00", "b00", "b00", "b00", "b00", "b00",
      "b00", "bfe", "bff", "b44", "b00", "b00", "b00", "bc0", "bff", "bc7",
      "b40", "b00", "b00", "\n", "b08", "b09", "b09", "bf4", "b1f", "b3b",
      "bf7", "b44", "b00", "bb0", "bff", "b7f", "b03", "b00", "b00", "b00",
      "b00", "bf4", "bf7", "be4", "b00", "b00", "b00", "b00", "b19", "b3b",
      "b17", "b00", "b00", "b00", "ba9", "bff", "b09", "b09", "b09", "b00",
      "\n", "b80", "be4", "bf6", "bff", "b44", "b00", "b38", "bf7", "bc0",
      "bc0", "b40", "b00", "b00", "b00", "b00", "b00", "b00", "b3f", "b36",
      "b1f", "b00", "b00", "b00", "b00", "b00", "b00", "b00", "b00", "b00",
      "bfb", "bff", "bf7", "be4", "bc0", "b00", "b00", "\n", "bba", "b47",
      "b00", "b08", "b11", "b00", "b00", "b09", "b09", "b19", "b3b", "bf7",
      "b44", "b00", "b00", "b00", "b00", "b00", "b00", "b00", "b00", "b00",
      "b00", "b00", "b00", "b00", "bc0", "be4", "bfe", "b1f", "b01", "b00",
      "b08", "b09", "b00", "b00", "\n", "b08", "b3b", "bb7", "be6", "b40",
      "b00", "be0", "b76", "b3e", "b06", "b00", "b18", "bff", "be4", "be4",
      "be4", "be4", "be4", "be4", "be4", "be4", "be4", "bf4", "bf6", "bb6",
      "bff", "b7f", "bed", "b40", "b00", "b00", "b00", "b00", "b00", "b00",
      "b00", "\n", "b00", "b00", "b00", "bb9", "bc7", "b00", "bbf", "be7",
      "be0", "bfe", "b07", "ba0", "bff", "b03", "b09", "bbf", "bcd", "bc9",
      "bc9", "be9", "b5f", "b01", "b38", "be7", "bfc", "b5f", "bc1", "bfc",
      "b07", "b00", "b00", "b00", "b00", "b00", "b00", "b00", "\n", "b00",
      "b00", "b00", "b08", "bbf", "be6", "bc4", "bc9", "bc9", "be0", "bf4",
      "bff", "bcf", "b00", "b00", "b00", "b08", "b09", "b09", "b01", "b00",
      "b00", "b00", "bf9", "b5f", "b1b", "b0b", "b00", "b00", "b00", "b00",
      "b00", "b00", "b00", "b00", "b00", "\n", "b00", "b00", "b00", "b00",
      "b00", "b08", "b19", "b1b", "b1b", "b1b", "b09", "b00", "b39", "bf7",
      "b26", "be4", "bc0", "bc0", "bc0", "bc0", "be4", "b74", "bfa", "b1f",
      "b00", "b00", "b00", "b00", "b00", "b00", "b00", "b00", "b00", "b00",
      "b00", "b00", "\n", "b00", "b00", "b00", "b00", "b00", "b00", "b00",
      "b00", "b00", "b00", "b00", "b00", "b00", "b08", "b33", "ba4", "bc8",
      "b7d", "bbf", "bc5", "be4", "b3e", "b03", "b00", "b00", "b00", "b00",
      "b00", "b00", "b00", "b00", "b00", "b00", "b00", "b00", "b00", "\n",
      " ", " ", " ", " ">>

\* small_ascii_art
SMALL_ASCII_ART ==
    <<<<"b00", "b00", "b00", "b00", "b00", "b00", "b00", "b00", "b00",
        "b00", "b00", "b00", "b80", "bc0", "bc0", "bc0", "b00", "b00",
        "b00", "b00", "b00", "b00", "b00", "b00", "b00", "b00", "b00",
        "b00">>,
      <<"b00", "b00", "b00", "b00", "b00", "b00", "b00", "b00", "b00",
        "b00", "b00", "b00", "b87", "b00", "b03", "bc8", "b07", "b00",
        "b00", "b00", "b00", "b00", "b00", "b00", "b00", "b00", "b00",
        "b00">>,
      <<"b00", "b00", "b00", "b00", "b00", "b00", "b00", "be4", "be4",
        "be4", "bc4", "bc0", "b40", "b19", "b1e", "b01", "b00", "b00",
        "b00", "bc0", "bc0", "bc0", "bc0", "b00", "b00", "b00", "b00",
        "b00">>,
      <<"b00", "b00", "b00", "b00", "b00", "b00", "bb0", "b4f", "bbb",
        "beb", "bff", "bff", "bff", "bff", "bff", "bff", "bff", "bff",
        "bff", "bff", "bbf", "b1f", "bff", "b00", "b00", "b00", "b00",
        "b00">>,
      <<"b00", "b00", "b00", "b00", "b50", "b44", "bf8", "bf0", "bff",
        "bff", "bff", "bff", "bff", "bff", "bff", "bff", "bff", "bff",
        "bff", "bff", "bf7", "bc4", "bff", "b00", "b00", "b00", "b00",
        "b00">>,
      <<"b00", "b00", "bc0", "b20", "b9d", "b5c", "bff", "bff", "b5f",
        "b89", "bed", "b5d", "bbf", "bff", "bff", "bff", "b5f", "bed",
        "bed", "b09", "bbb", "bff", "b7f", "b60", "b12", "b00", "b00",
        "b00">>,
      <<"b74", "bdf", "bff", "bfb", "bc6", "bb0", "bff", "bff", "b00",
        "bb8", "bff", "bff", "bb8", "bff", "bff", "bff", "b19", "bff",
        "bff", "b07", "b08", "bff", "bff", "b31", "b2d", "b04", "b00",
        "b00">>,
      <<"bb7", "bff", "b40", "bf8", "bff", "b5e", "bff", "bff", "bc4",
        "b00", "b09", "b01", "bfc", "bff", "bbf", "bff", "be7", "b08",
        "b01", "b00", "bf0", "bff", "bff", "be0", "bf4", "bf6", "be6",
        "bc4">>,
      <<"b08", "b09", "b09", "b09", "b09", "b09", "b09", "b09", "b09",
        "b09", "b09", "b09", "b19", "b12", "b13", "b12", "b1b", "b1b",
        "b1b", "b1b", "b1b", "b1b", "b13", "b3b", "b4f", "bff", "bff",
        "b3f">>>>

BADGE_OFFSET == 4

LANGUAGE_WIDTH == 12

BAR_AND_PERCENTAGE_WIDTH == 26

ASCII_ART_OFFSET == 50

ACTIVITIES_SHOWN == 5

RULE_WIDTH == 60

LINE_WIDTH == LANGUAGE_WIDTH + BAR_AND_PERCENTAGE_WIDTH

\* header_lines.iter().map(|line| line.len()).max().unwrap_or(0)
MaxByteLen(lines) ==
    IF lines = <<>> THEN 0
    ELSE LET lens == {ByteLen(lines[k]) : k \in 1..Len(lines)}
         IN  CHOOSE m \in lens : \A n \in lens : n <= m

max_header_width(lines) == MaxByteLen(lines) \div 2

header_row_count_mut(headers, badges) == Max(headers, badges)

\* header_lines.len().max(badge_lines.len() + badge_offset)
header_row_count(headers, badges) == Max(headers, badges + BADGE_OFFSET)

\* header_lines.get(i).unwrap_or(&"")
header_part(k, lines) == IF k < Len(lines) THEN lines[k + 1] ELSE <<>>

\* the badge cell of row k
badge_part(k, lines) ==
    IF k >= BADGE_OFFSET
    THEN (IF k - BADGE_OFFSET < Len(lines) THEN lines[k - BADGE_OFFSET + 1] ELSE <<>>)
    ELSE <<>>

\* format!("> {:<width$} {}\n", header_part, badge_part, width = max_header_width + 2)
header_row(k, headers, badges) ==
    <<">", " ">> \o PadLeft(header_part(k, headers), max_header_width(headers) + 2)
    \o <<" ">> \o badge_part(k, badges) \o <<"\n">>

\* n/d (d > 0, n >= 0) rounded to an integer, halves to the even neighbour
RoundHalfEven(n, d) ==
    LET q == n \div d
        r == n % d
    IN  IF 2 * r < d THEN q
        ELSE IF 2 * r > d THEN q + 1
        ELSE IF q % 2 = 0 THEN q ELSE q + 1

\* format!("{:.1}", percentage) of a percentage that is not negative
format_one_decimal(percentage) ==
    IF percentage.nan THEN <<"N", "a", "N">>
    ELSE LET tenths == RoundHalfEven(10 * percentage.num, percentage.den)
         IN  Decimal(tenths \div 10) \o <<".">> \o Decimal(tenths % 10)

\* format!("{:<12} {} {:.1}%", lang, create_ascii_bar(*percentage, 20), percentage)
language_line(entry) ==
    PadLeft(entry.lang, LANGUAGE_WIDTH) \o <<" ">>
    \o create_ascii_bar(entry.percent, BAR_WIDTH) \o <<" ">>
    \o format_one_decimal(entry.percent) \o <<"%">>

\* format!("{:<line_width$} {:>ascii_art_offset$}\n", line, small_ascii_art[art_index])
language_row_with_art(entry, art_index) ==
    PadLeft(language_line(entry), LINE_WIDTH) \o <<" ">>
    \o PadRight(SMALL_ASCII_ART[art_index + 1], ASCII_ART_OFFSET) \o <<"\n">>

\* format!("{}\n", line)
language_row_alone(entry) == language_line(entry) \o <<"\n">>

\* top_languages.len() - small_ascii_art.len() with the overflow checks off
art_threshold(n) ==
    IF SubOverflows(n, Len(SMALL_ASCII_ART)) THEN WrappingSub(n, Len(SMALL_ASCII_ART))
    ELSE n - Len(SMALL_ASCII_ART)

OutputStart == <<">", " ", "[", "!", "W", "A", "R", "N", "I", "N", "G", "]", "\n",
      ">", " ", "BACKTICK", "BACKTICK", "BACKTICK">>

AfterHeader ==
    <<">", " ", "BACKTICK", "BACKTICK", "BACKTICK", "\n">>
    \o <<">", " ", "<", "p", ">", "Y", "o", "u", "u2019", "r", "e", " ", "c",
      "o", "d", "i", "n", "g", " ", "a", "t", " ", "t", "h", "e", " ", "b",
      "a", "r", " ", "~", " ", "I", "m", " ", "d", "r", "u", "n", "k", " ",
      "a", "t", " ", "t", "h", "e", " ", "o", "f", "f", "i", "c", "e", "<",
      "/", "p", ">", "\n", "\n">>
    \o <<"-", "-", "-", "\n", "\n">>

LanguagesHead == <<"#", "#", "#", "#", " ", "u1f6e0", "ufe0f", " ", "L", "a", "n", "g",
      "u", "a", "g", "e", "s", "\n">> \o <<"BACKTICK", "BACKTICK", "BACKTICK", "c", "s", "s", "\n">>

AfterLanguages ==
    <<"BACKTICK", "BACKTICK", "BACKTICK", "\n", "\n">> \o <<"#", "#", "#", "#", " ", "u1f4ca", " ", "S", "t", "a", "t", "s",
      "\n">> \o <<"BACKTICK", "BACKTICK", "BACKTICK", "\n">>

AfterStats ==
    <<"\n", "BACKTICK", "BACKTICK", "BACKTICK", "\n", "\n">> \o <<"#", "#", "#", "#", " ", "u1f525", " ", "A", "c", "t", "i", "v", "i",
      "t", "y", "\n">> \o <<"BACKTICK", "BACKTICK", "BACKTICK", "\n">>

LastUpdated == <<"L", "a", "s", "t", " ", "u", "p", "d", "a", "t", "e", "d", ":", " ">>

Closing ==
    <<"BACKTICK", "BACKTICK", "BACKTICK", "\n", "\n">> \o <<">", " ", "[", "!", "N", "O", "T", "E", "]", "\n">>
    \o <<">", " ", "<", "p", " ", "a", "l", "i", "g", "n", "=", "\"", "c",
      "e", "n", "t", "e", "r", "\"", ">", "T", "h", "i", "s", " ", "R",
      "E", "A", "D", "M", "E", " ", "i", "s", " ", "<", "b", ">", "a", "u",
      "t", "o", "-", "g", "e", "n", "e", "r", "a", "t", "e", "d", "<", "/",
      "b", ">", " ", "w", "i", "t", "h", " ", "R", "u", "s", "t", " ", "a",
      "n", "d", " ", "A", "c", "t", "i", "o", "n", "s", " ", "-", " ", "C",
      "r", "e", "d", "i", "t", "s", " ", "t", "o", " ", "t", "h", "e", " ",
      "o", "r", "i", "g", "i", "n", "a", "l", " ", "c", "r", "e", "a", "t",
      "e", "r", " ", "i", "s", " ", "<", "a", " ", "h", "r", "e", "f", "=",
      "\"", "h", "t", "t", "p", "s", ":", "/", "/", "g", "i", "t", "h",
      "u", "b", ".", "c", "o", "m", "/", "v", "x", "f", "e", "m", "b", "o",
      "y", "/", "v", "x", "f", "e", "m", "b", "o", "y", "/", "\"", ">",
      "@", "v", "x", "f", "e", "m", "b", "o", "y", "<", "/", "a", ">", "<",
      "/", "p", ">">>

\* now.format("%Y-%m-%d %H:%M:%S"); the instants of the model are whole minutes
format_datetime_seconds(dt) == format_datetime(dt) \o <<":", "0", "0">>

\* lines 213-253: the stats and the followers are at hand, the badges are made
MainStart ==
    /\ pc = "agg_returned"
    /\ ~badge_overflows(Followers, Decimal(input.followers), BADGE_WIDTH)
    /\ ~badge_overflows(Stars, Decimal(input.stats.total_stars), BADGE_WIDTH)
    /\ header_lines' = Lines(FIGURE)
    /\ badge_lines' =
          Lines(create_ascii_badge(Followers, Decimal(input.followers), BADGE_WIDTH)
                \o <<"\n", "\n">>
                \o create_ascii_badge(Stars, Decimal(input.stats.total_stars), BADGE_WIDTH))
    /\ output' = OutputStart
    /\ i' = 0
    /\ pc' = "header_loop"
    /\ UNCHANGED <<overflow_checks, input, clock, args, ret, repo_idx, languages,
                   language_percentages, top_languages, documents>>

\* one round of the loop of lines 255-268
HeaderRow ==
    /\ pc = "header_loop"
    /\ i < header_row_count(Len(header_lines), Len(badge_lines))
    /\ output' = output \o header_row(i, header_lines, badge_lines)
    /\ i' = i + 1
    /\ UNCHANGED <<pc, overflow_checks, input, clock, args, ret, repo_idx, languages,
                   language_percentages, top_languages, header_lines,
                   badge_lines, documents>>

\* the loop is over; lines 270-293
HeaderDone ==
    /\ pc = "header_loop"
    /\ i >= header_row_count(Len(header_lines), Len(badge_lines))
    /\ output' = output \o AfterHeader \o LanguagesHead
    /\ i' = 0
    /\ pc' = "language_loop"
    /\ UNCHANGED <<overflow_checks, input, clock, args, ret, repo_idx, languages,
                   language_percentages, top_languages, header_lines,
                   badge_lines, documents>>

\* a round of the loop of lines 296-316 in a build with overflow checks, when
\* top_languages.len() - small_ascii_art.len() overflows: the program panics
LanguageRowPanic ==
    /\ pc = "language_loop"
    /\ i < Len(top_languages)
    /\ overflow_checks
    /\ SubOverflows(Len(top_languages), Len(SMALL_ASCII_ART))
    /\ pc' = "panicked"
    /\ UNCHANGED <<overflow_checks, input, clock, args, ret, repo_idx, languages,
                   language_percentages, top_languages, header_lines,
                   badge_lines, i, output, documents>>

\* a round of the loop of lines 296-316 otherwise
LanguageRow ==
    /\ pc = "language_loop"
    /\ i < Len(top_languages)
    /\ ~(overflow_checks /\ SubOverflows(Len(top_languages), Len(SMALL_ASCII_ART)))
    /\ LET threshold == art_threshold(Len(top_languages))
           entry == top_languages[i + 1]
       IN  IF i >= threshold
           THEN IF i - threshold < Len(SMALL_ASCII_ART)
                THEN /\ output' = output \o language_row_with_art(entry, i - threshold)
                     /\ i' = i + 1
                     /\ pc' = pc
                ELSE \* small_ascii_art[art_index] out of bounds
                     /\ pc' = "panicked"
                     /\ UNCHANGED <<i, output>>
           ELSE /\ output' = output \o language_row_alone(entry)
                /\ i' = i + 1
                /\ pc' = pc
    /\ UNCHANGED <<overflow_checks, input, clock, args, ret, repo_idx, languages,
                   language_percentages, top_languages, header_lines,
                   badge_lines, documents>>

\* the loop is over; lines 318-328
LanguagesDone ==
    /\ pc = "language_loop"
    /\ i >= Len(top_languages)
    /\ output' = output \o AfterLanguages \o format_github_stats(input.stats)
                 \o AfterStats \o Repeat("-", RULE_WIDTH) \o <<"\n">>
    /\ i' = 0
    /\ pc' = "activity_loop"
    /\ UNCHANGED <<overflow_checks, input, clock, args, ret, repo_idx, languages,
                   language_percentages, top_languages, header_lines,
                   badge_lines, documents>>

\* one round of `for activity in activities.iter().take(5)`; format_activity
\* reads the clock when the timestamp does not parse
ActivityRow ==
    /\ pc = "activity_loop"
    /\ i < Min(ACTIVITIES_SHOWN, Len(input.activities))
    /\ LET activity == input.activities[i + 1]
       IN  IF parse_from_rfc3339(activity.created_at).ok
           THEN /\ output' = output \o format_activity(activity, UtcNow(clock)) \o <<"\n">>
                /\ clock' = clock
           ELSE \E t \in clock..MaxClock :
                   /\ clock' = t
                   /\ output' = output \o format_activity(activity, UtcNow(t)) \o <<"\n">>
    /\ i' = i + 1
    /\ UNCHANGED <<pc, overflow_checks, input, args, ret, repo_idx, languages,
                   language_percentages, top_languages, header_lines,
                   badge_lines, documents>>

\* lines 333-348: the rule, the "Last updated" line from Local::now(), the
\* closing note, and README.md is written
MainFinish ==
    /\ pc = "activity_loop"
    /\ i >= Min(ACTIVITIES_SHOWN, Len(input.activities))
    /\ \E t \in clock..MaxClock :
          /\ clock' = t
          /\ output' = output \o Repeat("-", RULE_WIDTH) \o <<"\n", "\n">>
                       \o LastUpdated \o format_datetime_seconds(UtcNow(t)) \o <<"\n">>
                       \o Closing
          /\ documents' = Append(documents, output')
    /\ pc' = "done"
    /\ UNCHANGED <<overflow_checks, input, args, ret, repo_idx, languages,
                   language_percentages, top_languages, header_lines,
                   badge_lines, i>>

\* the program is started again on the data it was given before
MainAgain ==
    /\ pc = "done"
    /\ Len(documents) < MaxRuns
    /\ pc' = "agg_loop"
    /\ repo_idx' = 0
    /\ languages' = <<>>
    /\ language_percentages' = <<>>
    /\ top_languages' = <<>>
    /\ header_lines' = <<>>
    /\ badge_lines' = <<>>
    /\ i' = 0
    /\ output' = <<>>
    /\ UNCHANGED <<overflow_checks, input, clock, args, ret, documents>>

-----------------------------------------------------------------------------
(* The header loop on its own.                                             *)

\* the two badges of main, one above the other with an empty line between
BadgeLines(followers, stars) ==
    Lines(create_ascii_badge(Followers, Decimal(followers), BADGE_WIDTH)
          \o <<"\n", "\n">>
          \o create_ascii_badge(Stars, Decimal(stars), BADGE_WIDTH))

Stats(stars) ==
    [total_commits |-> 1234, total_issues |-> 5, total_prs |-> 67,
     total_stars |-> stars, repos_owned |-> 8, contributed_to |-> 0]

\* The loop is run on every prefix of the figure's lines and of the badges'
\* lines; the whole figure (19 lines) with the 7 badge lines is main's case.
InitHeader ==
    /\ pc = "header_loop"
    /\ input \in [followers : {0, 42}, stats : {Stats(7)}]
    /\ \E h \in 0..Len(Lines(FIGURE)), b \in 0..Len(BadgeLines(0, 0)) :
          /\ header_lines = SubSeq(Lines(FIGURE), 1, h)
          /\ badge_lines = SubSeq(BadgeLines(input.followers, input.stats.total_stars), 1, b)
    /\ output = OutputStart
    /\ i = 0
    /\ overflow_checks \in BOOLEAN
    /\ clock = 0
    /\ args = <<>>
    /\ ret = <<>>
    /\ repo_idx = 0
    /\ languages = <<>>
    /\ language_percentages = <<>>
    /\ top_languages = <<>>
    /\ documents = <<>>

SpecHeader == InitHeader /\ [][HeaderRow \/ HeaderDone]_vars

\* s without its first n and its last m elements
Inner(s, n, m) == SubSeq(s, n + 1, Len(s) - m)

\* the rows the header loop has written: what follows the opening of the
\* document and, once the loop is left, precedes what is written after it
HeaderRowsWritten ==
    SplitNewline(Inner(output, Len(OutputStart),
                       IF pc = "header_loop" THEN 0
                       ELSE Len(AfterHeader) + Len(LanguagesHead)))

\* header line k, empty past the last header line
HeaderCell(k) == IF k < Len(header_lines) THEN header_lines[k + 1] ELSE <<>>

\* badge line k - BADGE_OFFSET when that is a line of the badges, else empty
BadgeCell(k) ==
    IF k >= BADGE_OFFSET /\ k - BADGE_OFFSET < Len(badge_lines)
    THEN badge_lines[k - BADGE_OFFSET + 1]
    ELSE <<>>

\* row is "> ", the header cell, some padding, a space and the badge cell
IsHeaderRow(row, header, badge) ==
    \E pad \in 0..Len(row) :
        row = <<">", " ">> \o header \o Repeat(" ", pad) \o <<" ">> \o badge

\* C9: the header loop emits exactly max(header lines, badge lines +
\* BADGE_OFFSET) rows; row k holds header line k (empty past the last) and
\* badge line k - BADGE_OFFSET when k >= BADGE_OFFSET and that line exists
\* (empty otherwise), so the first BADGE_OFFSET rows carry no badge and every
\* header line and badge line is written once, in order.
C9_HeaderBadgeRows ==
    LET rows == HeaderRowsWritten
        count == Max(Len(header_lines), Len(badge_lines) + BADGE_OFFSET)
    IN  /\ pc = "header_loop" => (Len(rows) = i + 1 /\ i <= count)
        /\ pc = "language_loop" => Len(rows) = count + 1
        /\ rows[Len(rows)] = <<>>
        /\ \A k \in 0..(Len(rows) - 2) :
              IsHeaderRow(rows[k + 1], HeaderCell(k), BadgeCell(k))

\* the loop has run to its end on the whole figure and both badges
C9_Witness ==
    /\ pc = "language_loop"
    /\ header_lines = Lines(FIGURE)
    /\ Len(badge_lines) = Len(BadgeLines(0, 0))
    /\ Len(HeaderRowsWritten) = Len(header_lines) + 1

-----------------------------------------------------------------------------
(* The languages loop on its own.                                          *)

\* what get_all_languages returns for one repository when the HashMap hands
\* its entries over in the order they went in
ResultInKeyOrder(repo) ==
    LET map == AddEntries(<<>>, repo.langs)
        order == FirstSeen(<<repo>>)
    IN  truncate(sort_by([k \in 1..Len(order) |->
                             [lang |-> order[k],
                              percent |-> percentage_of(map[order[k]], total_bytes(map))]]),
                 TOP_LANGUAGES)

\* the results the loop is run on: those of the repositories on which the
\* aggregation does not panic
RankLists ==
    {ResultInKeyOrder(r) :
        r \in {q \in SmallRepos \cup WideRepos :
                  Len(q.langs) < 2 \/ BytesOfAll(q.langs) > 0}}

InitLanguages ==
    /\ pc = "language_loop"
    /\ top_languages \in RankLists
    /\ output = LanguagesHead
    /\ i = 0
    /\ overflow_checks \in BOOLEAN
    /\ input = <<>>
    /\ clock = 0
    /\ args = <<>>
    /\ ret = <<>>
    /\ repo_idx = 0
    /\ languages = <<>>
    /\ language_percentages = <<>>
    /\ header_lines = <<>>
    /\ badge_lines = <<>>
    /\ documents = <<>>

SpecLanguages == InitLanguages /\ [][LanguageRowPanic \/ LanguageRow]_vars

\* the rows the languages loop has written
LanguageRowsWritten == SplitNewline(Inner(output, Len(LanguagesHead), 0))

\* row ends with a line of the small art
HasArtSuffix(row) ==
    \E a \in 1..Len(SMALL_ASCII_ART) :
        /\ Len(row) >= Len(SMALL_ASCII_ART[a])
        /\ SubSeq(row, Len(row) - Len(SMALL_ASCII_ART[a]) + 1, Len(row))
              = SMALL_ASCII_ART[a]

\* row starts with the line of the language entry
StartsWithLanguage(row, entry) ==
    /\ Len(row) >= Len(language_line(entry))
    /\ SubSeq(row, 1, Len(language_line(entry))) = language_line(entry)

\* C6: for every number n of ranked languages, 0 <= n <= 10, the loop writes
\* one row per language in rank order, exactly the last min(n, number of
\* small-art lines) rows carry a small-art suffix, the earlier rows carry
\* none, and the loop never aborts.
C6_ArtOnLastRows ==
    LET rows == LanguageRowsWritten
        n == Len(top_languages)
        with_art == Min(n, Len(SMALL_ASCII_ART))
    IN  /\ pc # "panicked"
        /\ Len(rows) = i + 1
        /\ \A k \in 0..(i - 1) :
              /\ StartsWithLanguage(rows[k + 1], top_languages[k + 1])
              /\ HasArtSuffix(rows[k + 1]) <=> k >= n - with_art

-----------------------------------------------------------------------------
(* The whole program, run up to MaxRuns times on one input.                *)

GoodActivity == [type |-> PushEvent, repo |-> RepoAB, created_at |-> Timestamp1]

UndatedActivity == [type |-> PushEvent, repo |-> RepoAB, created_at |-> <<>>]

ComposeRepoLists ==
    {<<>>,
     <<Repo(TRUE, EntriesOf(1, 1, [k \in 1..1 |-> 0]))>>,
     <<Repo(TRUE, EntriesOf(1, 2, [k \in 1..2 |-> 0]))>>,
     <<Repo(TRUE, EntriesOf(1, 2, [k \in 1..2 |-> 1]))>>,
     <<Repo(TRUE, EntriesOf(1, 9, [k \in 1..9 |-> k]))>>,
     <<Repo(TRUE, EntriesOf(1, 9, [k \in 1..9 |-> k])),
       Repo(TRUE, EntriesOf(1, 2, [k \in 1..2 |-> 3 - k]))>>,
     <<Repo(TRUE, EntriesOf(1, 11, [k \in 1..11 |-> k]))>>}

ComposeActivities ==
    {<<>>,
     <<GoodActivity>>,
     <<UndatedActivity>>,
     [k \in 1..6 |-> GoodActivity]}

InitCompose ==
    /\ pc = "agg_loop"
    /\ input \in [repos : ComposeRepoLists, activities : ComposeActivities,
                  followers : {42}, stats : {Stats(7)}]
    /\ args = <<>>
    /\ ret = <<>>
    /\ InitCommon

NextCompose ==
    \/ NextAggregate
    \/ MainStart \/ HeaderRow \/ HeaderDone
    \/ LanguageRowPanic \/ LanguageRow \/ LanguagesDone
    \/ ActivityRow \/ MainFinish \/ MainAgain

SpecCompose == InitCompose /\ [][NextCompose]_vars

\* the document without the date of its "Last updated" line
WithoutLastUpdated(document) ==
    LET tail == Len(format_datetime_seconds(UtcNow(0))) + 1 + Len(Closing)
    IN  SubSeq(document, 1, Len(document) - tail)

\* C7: the documents of two runs on the same input are the same but for the
\* "Last updated" line; no other line depends on the run, on the clock or
\* on the iteration order of the map.
C7_SameDocumentTwice ==
    Len(documents) >= 2 =>
        WithoutLastUpdated(documents[1]) = WithoutLastUpdated(documents[2])

=============================================================================
